---- MODULE Spec2Model ----
(***************************************************************************)
(* A model of propresenter-autofix (src/main.py): the rich-text pipeline   *)
(* (extract_slide_text, cleanup_slide_text, generate_slide_rtf,            *)
(* extract_font_size) and the document editor (cleanup_slides,             *)
(* insert_cue).                                                            *)
(*                                                                         *)
(* Python strings are TLA+ strings: Len, SubSeq, Tail and \o act on them   *)
(* character by character, so the regular expressions and the str methods  *)
(* of the source are modelled on characters.  The module's text is ASCII;  *)
(* the one non-ASCII character the source names, the copyright sign        *)
(* U+00A9, is written Copyright below and has the code point 169.          *)
(***************************************************************************)
EXTENDS Integers, Sequences, FiniteSets, TLC

(***************************************************************************)
(* Python str and int primitives.                                          *)
(***************************************************************************)
Char(s, i) == SubSeq(s, i, i)

StartsAt(s, i, p) == i >= 1 /\ i + Len(p) - 1 <= Len(s) /\ SubSeq(s, i, i + Len(p) - 1) = p

StartsWith(s, p) == StartsAt(s, 1, p)

RECURSIVE Replace(_, _, _)
Replace(s, p, r) ==
  IF s = "" THEN ""
  ELSE IF StartsWith(s, p) THEN r \o Replace(SubSeq(s, Len(p) + 1, Len(s)), p, r)
  ELSE Char(s, 1) \o Replace(Tail(s), p, r)

IsSpace(c) == c \in {" ", "\t", "\n", "\r", "\f"}

RECURSIVE LStrip(_)
LStrip(s) == IF s # "" /\ IsSpace(Char(s, 1)) THEN LStrip(Tail(s)) ELSE s

RECURSIVE RStrip(_)
RStrip(s) ==
  IF s # "" /\ IsSpace(Char(s, Len(s))) THEN RStrip(SubSeq(s, 1, Len(s) - 1)) ELSE s

Strip(s) == LStrip(RStrip(s))

RECURSIVE RStripDot(_)
RStripDot(s) ==
  IF s # "" /\ Char(s, Len(s)) = "." THEN RStripDot(SubSeq(s, 1, Len(s) - 1)) ELSE s

UpperCase == "ABCDEFGHIJKLMNOPQRSTUVWXYZ"

LowerCase == "abcdefghijklmnopqrstuvwxyz"

LowerChar(c) ==
  IF \E i \in 1..26 : Char(UpperCase, i) = c
  THEN Char(LowerCase, CHOOSE i \in 1..26 : Char(UpperCase, i) = c)
  ELSE c

RECURSIVE Lower(_)
Lower(s) == IF s = "" THEN "" ELSE LowerChar(Char(s, 1)) \o Lower(Tail(s))

DigitChars == "0123456789abcdef"

IsDigit(c) == \E d \in 1..10 : Char(DigitChars, d) = c

DigitVal(c) == CHOOSE d \in 0..9 : Char(DigitChars, d + 1) = c

\* int(s) of a string of decimal digits
RECURSIVE ParseInt(_)
ParseInt(s) ==
  IF s = "" THEN 0
  ELSE ParseInt(SubSeq(s, 1, Len(s) - 1)) * 10 + DigitVal(Char(s, Len(s)))

\* f"{n:x}" with base 16, f"{n}" with base 10
RECURSIVE Format(_, _)
Format(n, base) ==
  IF n < base THEN Char(DigitChars, n + 1)
  ELSE Format(n \div base, base) \o Char(DigitChars, (n % base) + 1)

Str(n) == Format(n, 10)

\* f"{n:03d}"
Pad3(n) == IF Len(Str(n)) >= 3 THEN Str(n) ELSE SubSeq("000", 1, 3 - Len(Str(n))) \o Str(n)

RECURSIVE Join(_, _)
Join(sep, strs) ==
  IF strs = <<>> THEN ""
  ELSE IF Len(strs) = 1 THEN strs[1]
  ELSE strs[1] \o sep \o Join(sep, Tail(strs))

\* the copyright sign U+00A9 (the module's text is ASCII)
Copyright == "@"

\* ord(c) of the characters outside 32..127 that the modelled texts hold
CodePoint == [c \in {"\t", "\n", "\r", "\f", Copyright} |->
                IF c = "\t" THEN 9 ELSE IF c = "\n" THEN 10 ELSE IF c = "\r" THEN 13
                ELSE IF c = "\f" THEN 12 ELSE 169]

\* 32 <= ord(c) <= 127
IsAsciiPrintable(c) == c \notin DOMAIN CodePoint

RECURSIVE normalize(_)
normalize(text) ==
  IF text = "" THEN ""
  ELSE (IF IsAsciiPrintable(Char(text, 1)) THEN Char(text, 1)
        ELSE "\\u" \o Str(CodePoint[Char(text, 1)]) \o " ?") \o normalize(Tail(text))

RECURSIVE normalize2(_)
normalize2(text) ==
  IF text = "" THEN ""
  ELSE (IF IsAsciiPrintable(Char(text, 1)) THEN Char(text, 1)
        ELSE "\\'" \o Format(CodePoint[Char(text, 1)], 16)) \o normalize2(Tail(text))

(***************************************************************************)
(* FormattedLine and Song (src/src/propresenter/types.py).                 *)
(***************************************************************************)
FormattedLine(formatting, text) == [formatting |-> formatting, text |-> text]

BlankLine == FormattedLine("", "")

\* Song | None: present is FALSE for None
Song(title, info, book, number) ==
  [present |-> TRUE, title |-> title, info |-> info, book |-> book, number |-> number]

NoSong == [present |-> FALSE, title |-> "", info |-> <<>>, book |-> "", number |-> 0]

\* the truth value of "song.book and song.number"
HasBookNumber(song) == song.book # "" /\ song.number # 0

Texts(lines) == [k \in 1..Len(lines) |-> lines[k].text]

\* [line.replace(pattern, replacement) for line in lines]
ReplaceInLines(lines, pattern, replacement) ==
  [k \in 1..Len(lines) |->
     FormattedLine(lines[k].formatting, Replace(lines[k].text, pattern, replacement))]

\* [line.strip() for line in lines]
StripLines(lines) ==
  [k \in 1..Len(lines) |-> FormattedLine(lines[k].formatting, Strip(lines[k].text))]

(***************************************************************************)
(* cleanup_slide_text (src/main.py:60-102).                                *)
(***************************************************************************)
\* re.match(r"verse?\s*\d+", text, re.IGNORECASE)
RECURSIVE SkipSpaces(_, _)
SkipSpaces(s, i) == IF i <= Len(s) /\ IsSpace(Char(s, i)) THEN SkipSpaces(s, i + 1) ELSE i

MatchesVerse(text) ==
  /\ StartsWith(Lower(text), "vers")
  /\ LET e == IF StartsAt(Lower(text), 5, "e") THEN 6 ELSE 5
         d == SkipSpaces(text, e)
     IN  d <= Len(text) /\ IsDigit(Char(text, d))

\* re.match(r"^\d{,2}\.?$", text) on a stripped text
MatchesNumber(text) ==
  LET body == IF text # "" /\ Char(text, Len(text)) = "." THEN SubSeq(text, 1, Len(text) - 1)
              ELSE text
  IN  Len(body) <= 2 /\ \A k \in 1..Len(body) : IsDigit(Char(body, k))

IsEndJunk(text) == text \in {"", "-", "."}

RECURSIVE TrimFront(_)
TrimFront(lines) ==
  IF lines # <<>> /\ IsEndJunk(lines[1].text) THEN TrimFront(Tail(lines)) ELSE lines

RECURSIVE TrimBack(_)
TrimBack(lines) ==
  IF lines # <<>> /\ IsEndJunk(lines[Len(lines)].text)
  THEN TrimBack(SubSeq(lines, 1, Len(lines) - 1)) ELSE lines

\* lines 62-67: the passes common to both modes
CleanTokens(lines) ==
  LET l1 == StripLines(ReplaceInLines(ReplaceInLines(lines, "\\tab", ""), "\\par", ""))
      l2 == ReplaceInLines(SelectSeq(l1, LAMBDA l : ~StartsWith(l.text, "*")), "*", "")
      l3 == ReplaceInLines(l2, "\\u8232?", "")
      l4 == SelectSeq(l3, LAMBDA l : /\ ~StartsWith(l.text, normalize(Copyright))
                                     /\ ~StartsWith(l.text, normalize2(Copyright)))
      l5 == SelectSeq(l4, LAMBDA l : ~MatchesVerse(l.text))
  IN  StripLines(l5)

\* lines 69-75
ModeSplit(lines, intro) ==
  IF intro THEN SelectSeq(lines, LAMBDA l : l.text # "")
  ELSE TrimBack(TrimFront(lines))

InSeq(x, seq) == \E k \in 1..Len(seq) : seq[k] = x

\* lines 80-88: the filter applied when the song carries book and number
KeepLine(line, song) ==
  LET l == Lower(line.text)
      info_lines1 == [k \in 1..Len(song.info) |-> Lower(normalize(song.info[k]))]
      info_lines2 == [k \in 1..Len(song.info) |-> Lower(normalize2(song.info[k]))]
  IN  /\ ~StartsWith(l, Lower(song.book \o " " \o Pad3(song.number)))
      /\ ~StartsWith(l, Lower(song.book \o " " \o Str(song.number)))
      /\ ~InSeq(l, info_lines1)
      /\ ~InSeq(l, info_lines2)
      /\ ~InSeq(Replace(l, ", ", ". "), info_lines1)
      /\ ~InSeq(Replace(l, ", ", ". "), info_lines2)

SongFilter(lines, intro, song) ==
  IF ~intro /\ HasBookNumber(song)
  THEN SelectSeq(lines, LAMBDA line : KeepLine(line, song))
  ELSE lines

\* lines 93-95
NumberMerge(lines) ==
  IF Len(lines) > 1 /\ MatchesNumber(lines[1].text)
  THEN <<FormattedLine(lines[2].formatting,
                       RStripDot(lines[1].text) \o ". " \o lines[2].text)>>
       \o SubSeq(lines, 3, Len(lines))
  ELSE lines

\* a centering that puts the blank line at the end the ellipsis is at
EllipsisCenterSameEnd(lines) ==
  IF lines[1].text = "..." /\ lines[Len(lines)].text # "..." THEN <<BlankLine>> \o lines
  ELSE IF lines[Len(lines)].text = "..." /\ lines[1].text # "..." THEN Append(lines, BlankLine)
  ELSE lines

\* lines 97-100
EllipsisCenter(lines) ==
  IF lines[1].text = "..." /\ lines[Len(lines)].text # "..." THEN Append(lines, BlankLine)
  ELSE IF lines[Len(lines)].text = "..." /\ lines[1].text # "..." THEN <<BlankLine>> \o lines
  ELSE lines

\* line 77 reads song.book of None when the mode is body and no song is given
CleanupRaises(intro, song) == ~intro /\ ~song.present

cleanup_slide_text(lines, intro, song) ==
  LET filtered == SongFilter(ModeSplit(CleanTokens(lines), intro), intro, song)
  IN  IF Len(filtered) = 0 THEN <<>> ELSE EllipsisCenter(NumberMerge(filtered))

(***************************************************************************)
(* generate_slide_rtf (src/main.py:105-108).                               *)
(***************************************************************************)
RtfHead == "{\\rtf1\\ansi\\uc1\\deff0{\\fonttbl{\\f0\\fnil Arial;}}\\pard\\qc\\sa0\\sb0\\fs"

ComposeLine(line) == line.formatting \o " " \o normalize(line.text)

generate_slide_rtf(lines, font_size) ==
  RtfHead \o Str(font_size) \o "\\f0 " \o Join("\\par", [k \in 1..Len(lines) |-> ComposeLine(lines[k])]) \o "}"

(***************************************************************************)
(* extract_slide_text (src/main.py:157-173).  Positions are 1-based; an    *)
(* operator that looks for something returns 0 when there is none.         *)
(***************************************************************************)
Opt(s, i, c) == IF StartsAt(s, i, c) THEN i + Len(c) ELSE i

\* (\\b0?\\i0?\\ul0?\\strike0?) at i: the position after it
FmtEnd(s, i) ==
  IF ~StartsAt(s, i, "\\b") THEN 0
  ELSE LET a == Opt(s, i + 2, "0") IN
       IF ~StartsAt(s, a, "\\i") THEN 0
       ELSE LET b == Opt(s, a + 2, "0") IN
            IF ~StartsAt(s, b, "\\ul") THEN 0
            ELSE LET c == Opt(s, b + 3, "0") IN
                 IF ~StartsAt(s, c, "\\strike") THEN 0 ELSE Opt(s, c + 7, "0")

RECURSIVE SkipDigits(_, _)
SkipDigits(s, i) == IF i <= Len(s) /\ IsDigit(Char(s, i)) THEN SkipDigits(s, i + 1) ELSE i

\* .*? up to the first place at or after i where tok (and then a digit, when
\* digits are asked for) stands; "." does not match a line feed
RECURSIVE FindTok(_, _, _, _)
FindTok(s, i, tok, digits) ==
  IF i > Len(s) THEN 0
  ELSE IF StartsAt(s, i, tok) /\ (digits => SkipDigits(s, i + Len(tok)) > i + Len(tok)) THEN i
  ELSE IF Char(s, i) = "\n" THEN 0
  ELSE FindTok(s, i + 1, tok, digits)

\* (.*?)(\\par|\}) or (.*?)()\}: the place of the first terminator at or after i
RECURSIVE FindTerm(_, _, _)
FindTerm(s, i, par) ==
  IF i > Len(s) THEN 0
  ELSE IF (par /\ StartsAt(s, i, "\\par")) \/ StartsAt(s, i, "}") THEN i
  ELSE IF Char(s, i) = "\n" THEN 0
  ELSE FindTerm(s, i + 1, par)

TermLen(s, i) == IF StartsAt(s, i, "}") THEN 1 ELSE 4

\* the four patterns of lines 162-167: the token that introduces the text (none
\* for the fourth, which starts at \par), whether digits follow the token, and
\* whether \par terminates the text as well as "}"
Patterns ==
  << [lead |-> "",      tok |-> "\\cb",         digits |-> TRUE,  par |-> TRUE],
     [lead |-> "",      tok |-> "\\nosupersub", digits |-> FALSE, par |-> TRUE],
     [lead |-> "",      tok |-> "\\ltrch",      digits |-> FALSE, par |-> FALSE],
     [lead |-> "\\par", tok |-> "",             digits |-> FALSE, par |-> TRUE] >>

NoMatch == [ok |-> FALSE, formatting |-> "", text |-> "", end |-> 0]

\* one attempt of re at position i: the leftmost-first match of the pattern
MatchAt(s, i, pat) ==
  IF ~StartsAt(s, i, pat.lead) THEN NoMatch
  ELSE LET f0 == i + Len(pat.lead)
           f  == FmtEnd(s, f0)
       IN  IF f = 0 THEN NoMatch
           ELSE LET k == IF pat.tok = "" THEN f ELSE FindTok(s, f, pat.tok, pat.digits) IN
                IF k = 0 THEN NoMatch
                ELSE LET d  == IF pat.digits THEN SkipDigits(s, k + Len(pat.tok))
                               ELSE k + Len(pat.tok)
                         sp == Opt(s, d, " ")
                         t  == FindTerm(s, sp, pat.par)
                     IN  IF t = 0 THEN NoMatch
                         ELSE [ok |-> TRUE,
                               formatting |-> SubSeq(s, f0, f - 1),
                               text |-> SubSeq(s, sp, t - 1),
                               end |-> t + TermLen(s, t)]

\* the only element of a one-element set; {e(v) : v \in {x}} evaluates x once
Only(S) == CHOOSE x \in S : TRUE

\* the leftmost place at or after i where the pattern matches (0: nowhere)
FirstMatch(s, i, pat) ==
  IF \E k \in i..Len(s) : MatchAt(s, k, pat).ok
  THEN CHOOSE k \in i..Len(s) :
         MatchAt(s, k, pat).ok /\ \A j \in i..(k - 1) : ~MatchAt(s, j, pat).ok
  ELSE 0

\* re.findall: the non-overlapping matches from left to right; each search
\* resumes where the last match ended
RECURSIVE FindAll(_, _, _)
FindAll(s, i, pat) ==
  Only({ IF k = 0 THEN <<>>
         ELSE Only({ <<FormattedLine(m.formatting, Strip(m.text))>> \o FindAll(s, m.end, pat) :
                     m \in {MatchAt(s, k, pat)} }) :
         k \in {FirstMatch(s, i, pat)} })

RECURSIVE FirstMatching(_, _)
FirstMatching(rtf, n) ==
  IF n > Len(Patterns) THEN <<>>
  ELSE Only({ IF matches # <<>> THEN matches ELSE FirstMatching(rtf, n + 1) :
              matches \in {FindAll(rtf, 1, Patterns[n])} })

extract_slide_text(rtf) == FirstMatching(rtf, 1)

(***************************************************************************)
(* extract_font_size (src/main.py:141-154) and choice (334-348).           *)
(***************************************************************************)
\* {int(size) for size in re.findall(r"\\fs(\d+)", rtf)}
FontSizes(s) ==
  {ParseInt(SubSeq(s, k + 3, SkipDigits(s, k + 3) - 1)) :
     k \in {j \in 1..Len(s) : StartsAt(s, j, "\\fs") /\ SkipDigits(s, j + 3) > j + 3}}

FallbackFontSize == 180

\* default_font_size is None
NoDefault == [set |-> FALSE, size |-> 0]

Default(size) == [set |-> TRUE, size |-> size]

\* an extract_font_size that offers the sizes of the markup only
OfferedFromMarkup(font_sizes, default_font_size) == font_sizes

\* the sizes of line 154's comprehension: the markup's, and the default when
\* there is one (line 153)
Offered(font_sizes, default_font_size) ==
  IF default_font_size.set THEN font_sizes \cup {default_font_size.size} ELSE font_sizes

\* the list handed to choice(): one candidate, size // 2, per offered size
RECURSIVE Halved(_)
Halved(sizes) ==
  IF sizes = {} THEN <<>>
  ELSE LET m == CHOOSE x \in sizes : \A y \in sizes : x <= y
       IN  <<m \div 2>> \o Halved(sizes \ {m})

\* whether extract_font_size calls choice()
Ambiguous(rtf, default_font_size) ==
  /\ Cardinality(FontSizes(rtf)) > 1
  /\ ~(default_font_size.set /\ default_font_size.size \in FontSizes(rtf))

Candidates(rtf, default_font_size) ==
  IF Ambiguous(rtf, default_font_size)
  THEN Halved(Offered(FontSizes(rtf), default_font_size))
  ELSE <<>>

\* the answers choice() can return: it asks again until the number names a candidate
ChoiceAnswers(choices) == {choices[k] : k \in 1..Len(choices)}

\* extract_font_size, given the candidate the decision provider selects
extract_font_size(rtf, default_font_size, selected) ==
  LET font_sizes == FontSizes(rtf) IN
  IF Cardinality(font_sizes) = 0 THEN FallbackFontSize
  ELSE IF Cardinality(font_sizes) = 1 THEN CHOOSE x \in font_sizes : TRUE
  ELSE IF default_font_size.set /\ default_font_size.size \in font_sizes
       THEN default_font_size.size
  ELSE selected * 2

(***************************************************************************)
(* The document (protobuf Presentation): cues and identifier groups.  A    *)
(* cue's uuid and an identifier's string are numbers standing for uuid     *)
(* strings; an action holds the rtf_data of each element of its base       *)
(* slide.                                                                  *)
(***************************************************************************)
STAGE == 1

MEDIA == 2

CLEAR == 5

MESSAGE == 8

PRESENTATION_SLIDE == 11

\* a type number that is no member of ActionType: ActionType(n) raises ValueError
UNKNOWN_TYPE == 0

ActionTypes == {STAGE, MEDIA, CLEAR, MESSAGE, PRESENTATION_SLIDE}

Removable == {MEDIA, MESSAGE, CLEAR, STAGE}

Action(type, elements) ==
  [type |-> type, isEnabled |-> FALSE, label |-> "", elements |-> elements]

SlideAction(rtf) == Action(PRESENTATION_SLIDE, <<rtf>>)

Cue(uuid, actions) == [uuid |-> uuid, isEnabled |-> FALSE, actions |-> actions]

Presentation(cues, cue_groups) == [cues |-> cues, cue_groups |-> cue_groups]

\* pb.Presentation()
EmptyPresentation == Presentation(<<>>, <<>>)

RECURSIVE Flatten(_)
Flatten(groups) == IF groups = <<>> THEN <<>> ELSE Head(groups) \o Flatten(Tail(groups))

Uuids(cues) == [k \in 1..Len(cues) |-> cues[k].uuid]

\* list.insert(index, x) for 0 <= index
InsertAt(seq, index, x) ==
  IF index >= Len(seq) THEN Append(seq, x)
  ELSE SubSeq(seq, 1, index) \o <<x>> \o SubSeq(seq, index + 1, Len(seq))

RemoveAt(seq, j) == SubSeq(seq, 1, j - 1) \o SubSeq(seq, j + 1, Len(seq))

(***************************************************************************)
(* process_slide (src/main.py:176-224).                                    *)
(***************************************************************************)
\* the branch of extract_font_size that resolves the size
FontBranch(rtf, default_font_size) ==
  IF Cardinality(FontSizes(rtf)) = 0 THEN "fallback"
  ELSE IF Cardinality(FontSizes(rtf)) = 1 THEN "single"
  ELSE IF default_font_size.set /\ default_font_size.size \in FontSizes(rtf) THEN "default"
  ELSE "choice"

\* a question whose default answer keeps the slide
AnswerKeepsUnlessYes(ans) == ans = "" \/ Lower(Char(ans, 1)) # "y"

\* the answer to "Fjern dette slide? [Y/n]" keeps the slide (line 212)
AnswerKeeps(ans) == ans # "" /\ Lower(Char(ans, 1)) = "n"

\* lines 216-221
EndMarker(cleaned_lines) ==
  IF cleaned_lines[1].text = "..."
  THEN SubSeq(cleaned_lines, 1, Len(cleaned_lines) - 1) \o <<FormattedLine("", "-")>>
  ELSE <<BlankLine>> \o cleaned_lines \o <<FormattedLine("", "-")>>

\* line 203
IsEmptySlide(cleaned_lines) == Len(cleaned_lines) = 0

\* line 208
AsksSingleLine(check_single_lines, cleaned_lines) ==
  check_single_lines /\ Len(cleaned_lines) = 1

\* line 216
GetsEndMarker(slide_index, total_slides, add_dash_to_last) ==
  slide_index = total_slides - 1 /\ add_dash_to_last

\* the first element of the pair process_slide returns: the resolved size
\* when the slide is kept (line 224), the size it was given when the slide is
\* dropped (lines 206, 214)
ReturnedSize(keep, font_size, default_font_size) ==
  IF keep THEN Default(font_size) ELSE default_font_size

\* what process_slide did, for the properties: the font branch ("" when no
\* size was resolved) and the size resolved, the candidates offered (<<>> when
\* choice() was not called), whether the single-line question was asked, the
\* cleaned lines and whether the end marker was added
Outcome(raises, keep, size, cue, branch, resolved, candidates, asked, cleaned, marked) ==
  [raises |-> raises, keep |-> keep, new_font_size |-> size, cue |-> cue,
   branch |-> branch, resolved |-> resolved, candidates |-> candidates,
   asked |-> asked, cleaned |-> cleaned, marked |-> marked]

Raised(cue, default_font_size) ==
  Outcome(TRUE, FALSE, default_font_size, cue, "", 0, <<>>, FALSE, <<>>, FALSE)

\* slide_index counts from 0; selected and ans are the decision provider's
\* answers, read only where the source asks for them
process_slide(cue, slide_index, total_slides, song, default_font_size, add_dash_to_last, check_single_lines, selected, ans) ==
  LET action == cue.actions[1] IN
  IF action.type \notin ActionTypes THEN Raised(cue, default_font_size)
  ELSE IF action.type # PRESENTATION_SLIDE
  THEN Outcome(FALSE, TRUE, default_font_size, cue, "", 0, <<>>, FALSE, <<>>, FALSE)
  ELSE IF action.elements = <<>>
  THEN Raised([cue EXCEPT !.actions[1].isEnabled = TRUE], default_font_size)
  ELSE
    LET rtf        == action.elements[1]
        branch     == FontBranch(rtf, default_font_size)
        candidates == Candidates(rtf, default_font_size)
        font_size  == extract_font_size(rtf, default_font_size, selected)
        enabled    == [cue EXCEPT !.actions[1].isEnabled = TRUE,
                                  !.actions[1].elements = <<rtf>>]
        marked     == GetsEndMarker(slide_index, total_slides, add_dash_to_last)
    IN  IF CleanupRaises(FALSE, song)
        THEN Outcome(TRUE, FALSE, default_font_size, enabled, branch, font_size,
                     candidates, FALSE, <<>>, FALSE)
        ELSE Only({
          IF IsEmptySlide(cleaned)
          THEN Outcome(FALSE, FALSE, ReturnedSize(FALSE, font_size, default_font_size),
                       enabled, branch, font_size, candidates, FALSE, cleaned, FALSE)
          ELSE IF AsksSingleLine(check_single_lines, cleaned) /\ ~AnswerKeeps(ans)
          THEN Outcome(FALSE, FALSE, ReturnedSize(FALSE, font_size, default_font_size),
                       enabled, branch, font_size, candidates, TRUE, cleaned, FALSE)
          ELSE Outcome(FALSE, TRUE, ReturnedSize(TRUE, font_size, default_font_size),
                       [enabled EXCEPT !.actions[1].elements =
                          <<generate_slide_rtf(IF marked THEN EndMarker(cleaned) ELSE cleaned,
                                               font_size)>>],
                       branch, font_size, candidates,
                       AsksSingleLine(check_single_lines, cleaned), cleaned, marked) :
          cleaned \in {cleanup_slide_text(extract_slide_text(rtf), FALSE, song)} })

(***************************************************************************)
(* cleanup_slides (src/main.py:227-278): one iteration of the loop over    *)
(* the cues, from the last cue to the first.                               *)
(***************************************************************************)
\* lines 250-266, the loop over the actions from the last to the first: the
\* actions left and the place of the slide action it stops at (0: none);
\* raises when it meets a type that ActionType does not know
RECURSIVE ScanActions(_, _)
ScanActions(actions, j) ==
  IF j = 0 THEN [actions |-> actions, found |-> 0, raises |-> FALSE]
  ELSE IF actions[j].type \notin ActionTypes
  THEN [actions |-> actions, found |-> 0, raises |-> TRUE]
  ELSE IF actions[j].type = PRESENTATION_SLIDE
  THEN [actions |-> actions, found |-> j, raises |-> FALSE]
  ELSE ScanActions(RemoveAt(actions, j), j - 1)

\* one cue of the sweep: the Outcome of process_slide when the loop reaches
\* a slide action, and a cue that is not kept when it reaches none
SweepOne(cue, slide_index, total_slides, song, default_font_size, add_dash_to_last, check_single_lines, selected, ans) ==
  LET scan    == ScanActions(cue.actions, Len(cue.actions))
      scanned == [cue EXCEPT !.isEnabled = TRUE, !.actions = scan.actions]
  IN  IF scan.raises THEN Raised(scanned, default_font_size)
      ELSE IF scan.found = 0
      THEN Outcome(FALSE, FALSE, default_font_size, scanned, "", 0, <<>>, FALSE, <<>>, FALSE)
      ELSE process_slide(scanned, slide_index, total_slides, song, default_font_size,
                         add_dash_to_last, check_single_lines, selected, ans)

\* lines 259-263 (i counts from 1 here, so "i < len(identifiers)" is i <= Len)
\* a sweep that keeps every cue it visits
KeptCuesOfAll(kept, cue, keep) == <<cue>> \o kept

\* a sweep that collects the kept cues in the order it visits them
KeptCuesAppended(kept, cue, keep) == IF keep THEN Append(kept, cue) ELSE kept

KeptCues(kept, cue, keep) == IF keep THEN <<cue>> \o kept ELSE kept

\* a sweep that keeps the identifier of every cue it visits
KeptIdentifiersOfAll(kept, all, i, keep) ==
  IF i <= Len(all) THEN <<all[i]>> \o kept ELSE kept

KeptIdentifiers(kept, all, i, keep) ==
  IF keep /\ i <= Len(all) THEN <<all[i]>> \o kept ELSE kept

\* a sweep that never records a size
NextDefaultUnchanged(keep, new_font_size, default_font_size) == default_font_size

\* line 260: the default the next slide sees
NextDefault(keep, new_font_size, default_font_size) ==
  IF keep THEN new_font_size ELSE default_font_size

\* lines 268-274
Rebuilt(kept_cues, kept_identifiers) == Presentation(kept_cues, <<kept_identifiers>>)

(***************************************************************************)
(* insert_cue (src/main.py:315-331).                                       *)
(***************************************************************************)
\* an insert_cue that leaves the new identifier where add() put it, at the end
insert_cue_appending(pres, cue, index) ==
  LET groups == IF Len(pres.cue_groups) = 0 THEN <<(<<>>)>> ELSE pres.cue_groups
  IN  Presentation(InsertAt(pres.cues, index, cue),
                   [groups EXCEPT ![1] = Append(groups[1], cue.uuid)])

insert_cue(pres, cue, index) ==
  LET groups == IF Len(pres.cue_groups) = 0 THEN <<(<<>>)>> ELSE pres.cue_groups
      first  == IF Len(groups[1]) > 0
                THEN InsertAt(groups[1], index, cue.uuid)
                ELSE <<cue.uuid>>
  IN  Presentation(InsertAt(pres.cues, index, cue),
                   [groups EXCEPT ![1] = first])

(***************************************************************************)
(* Song.get_info_slide_content (src/src/propresenter/types.py:111-122) and *)
(* make_infoslide_from_content (src/main.py:281-312).                      *)
(***************************************************************************)
get_info_slide_content(song) ==
  LET details == [k \in 1..Len(song.info) |->
                    FormattedLine("\\sl288\\slmult1\\i", song.info[k])]
  IN  IF HasBookNumber(song)
      THEN <<FormattedLine("\\sl288\\slmult1", song.book \o " " \o Pad3(song.number)),
             FormattedLine("\\sl360\\slmult1", song.title)>> \o details
      ELSE <<FormattedLine("\\sl360\\slmult1", song.title)>> \o details

\* the font_size default of generate_slide_rtf
DefaultRtfFontSize == 180

InfoLines(content_lines) == cleanup_slide_text(content_lines, TRUE, NoSong)

\* line 303: zip(..., strict=True) over the attributes, the lines and
\* [150, 100] + [70] * (n - 2) raises unless the three are equally long
InfoslideRaises(content_lines) == Len(InfoLines(content_lines)) < 2

\* line 302
InfoSizes(n) == <<150, 100>> \o [k \in 1..(n - 2) |-> 70]

\* lines 301-307: the custom attribute of each line, its range counted in the
\* characters of the lines' texts with one character between two lines
RECURSIVE InfoAttributes(_, _, _)
InfoAttributes(all_info, k, pos) ==
  IF k > Len(all_info) THEN <<>>
  ELSE <<[start |-> pos, end |-> pos + Len(all_info[k].text),
          original_font_size |-> InfoSizes(Len(all_info))[k]]>>
       \o InfoAttributes(all_info, k + 1, pos + Len(all_info[k].text) + 1)

\* a make_infoslide_from_content that leaves the template cue's uuid in place
make_infoslide_keeping_uuid(content_lines, uuid) ==
  [Cue(1, <<[Action(PRESENTATION_SLIDE,
                    <<generate_slide_rtf(InfoLines(content_lines), DefaultRtfFontSize)>>)
              EXCEPT !.label = "Infoslide", !.isEnabled = TRUE]>>)
   EXCEPT !.isEnabled = TRUE]

\* the cue of info_template.pro with a new uuid (uuid4) and the composed text
make_infoslide_from_content(content_lines, uuid) ==
  [Cue(uuid, <<[Action(PRESENTATION_SLIDE,
                       <<generate_slide_rtf(InfoLines(content_lines), DefaultRtfFontSize)>>)
                 EXCEPT !.label = "Infoslide", !.isEnabled = TRUE]>>)
   EXCEPT !.isEnabled = TRUE]

(***************************************************************************)
(* The state.                                                              *)
(***************************************************************************)
VARIABLES
  pres,                 \* the document being edited
  input,                \* the document as it was loaded
  phase,                \* "new", "sweep", "done", "failed" (an exception left cleanup_slides)
  song,                 \* cleanup_slides' arguments
  add_dash_to_last,
  check_single_lines,
  i,                    \* the loop variable of line 246, counted from 1
  total_slides,         \* cleanup_slides' locals
  identifiers,
  default_font_size,
  kept_cues,
  kept_identifiers,
  last,                 \* what the last step did (for the properties)
  next_uuid,            \* the next value uuid4() returns
  inserts,              \* the number of insert_cue calls made
  fn,                   \* the pure function under test, its arguments and
  args,                 \* its results (the specifications of the pure
  out,                  \* functions)
  batch                 \* the run of a command over the files of a library

vars == <<pres, input, phase, song, add_dash_to_last, check_single_lines, i,
          total_slides, identifiers, default_font_size, kept_cues,
          kept_identifiers, last, next_uuid, inserts, fn, args, out, batch>>

editor == <<pres, input, phase, song, add_dash_to_last, check_single_lines, i,
            total_slides, identifiers, default_font_size, kept_cues,
            kept_identifiers, last, next_uuid, inserts, batch>>

(***************************************************************************)
(* Bounds and input documents.                                             *)
(***************************************************************************)
MaxCues == 2

MaxInserts == 2

\* a line of a slide as the presentation program writes it: the formatting
\* prefix, the font size (none when 0), a colour token, the text
SourceLine(size, text) ==
  "\\b0\\i0\\ul0\\strike0" \o (IF size = 0 THEN "" ELSE "\\fs" \o Str(size))
    \o "\\cb2 " \o text

SourceRtf(lines) ==
  "{\\rtf1\\ansi " \o Join("\\par", [k \in 1..Len(lines) |-> SourceLine(lines[k][1], lines[k][2])])
    \o "}"

TwoLines == SourceRtf(<< <<180, "A">>, <<180, "B">> >>)

EmptyText == SourceRtf(<< <<180, "-">> >>)

OneLine == SourceRtf(<< <<200, "C">> >>)

TwoSizes == SourceRtf(<< <<180, "A">>, <<200, "B">> >>)

NoSizeEllipsis == SourceRtf(<< <<0, "...">>, <<0, "B">> >>)

\* the action lists of the input cues
CuePool ==
  << <<SlideAction(TwoLines)>>,
     <<SlideAction(EmptyText)>>,
     <<SlideAction(OneLine), Action(MEDIA, <<>>)>>,
     <<SlideAction(TwoSizes)>>,
     <<SlideAction(NoSizeEllipsis)>>,
     <<Action(MEDIA, <<>>), SlideAction(TwoLines)>>,
     <<Action(MESSAGE, <<>>)>>,
     <<SlideAction(TwoLines), Action(CLEAR, <<>>), SlideAction(EmptyText)>>,
     <<Action(UNKNOWN_TYPE, <<>>)>> >>

\* the part of the pool the insertion specification draws from: a slide that
\* is kept, a slide that is dropped, a cue with no slide
EditPool == <<CuePool[1], CuePool[2], CuePool[7]>>

SongDDS == Song("Title", <<"Text: N.N.">>, "DDS", 12)

Answers == {"", "n", "N", "y"}

\* the identifier groups of an input document of n cues: "one" group, "two"
\* groups split after h, or one group "short" of the last identifier
Groups(n, layout, h) ==
  IF layout = "one" THEN << [k \in 1..n |-> k] >>
  ELSE IF layout = "short" THEN << [k \in 1..(n - 1) |-> k] >>
  ELSE << [k \in 1..h |-> k], [k \in 1..(n - h) |-> h + k] >>

NoStep ==
  [index |-> 0, raises |-> FALSE, keep |-> FALSE, branch |-> "", resolved |-> 0,
   candidates |-> <<>>, asked |-> FALSE, cleaned |-> <<>>, marked |-> FALSE,
   before |-> NoDefault, after |-> NoDefault, inserted |-> 0, answer |-> ""]

NoCall == fn = "" /\ args = <<>> /\ out = <<>>

\* no command is running
NoBatch ==
  [command |-> "", input_dir |-> "", output_dir |-> "", add_infoslide |-> FALSE,
   add_end_dash |-> FALSE, check_single_lines |-> FALSE,
   files |-> <<>>, at |-> 0, raised |-> {}, logged |-> {}, skipped |-> {},
   written |-> {}, aborted |-> FALSE]

\* load_presentation and the entry of cleanup_slides (lines 235-244)
Loaded(pool, layouts, songs, dashes, checks) ==
  \E n \in 1..MaxCues : \E f \in [1..n -> 1..Len(pool)] :
  \E layout \in layouts : \E h \in 0..n :
    /\ layout = "two" \/ h = 0
    /\ pres = Presentation([k \in 1..n |-> Cue(k, pool[f[k]])], Groups(n, layout, h))
    /\ input = pres
    /\ phase = "sweep"
    /\ song \in songs
    /\ add_dash_to_last \in dashes
    /\ check_single_lines \in checks
    /\ i = n
    /\ total_slides = n
    /\ identifiers = Flatten(pres.cue_groups)
    /\ default_font_size = NoDefault
    /\ kept_cues = <<>>
    /\ kept_identifiers = <<>>
    /\ last = NoStep
    /\ next_uuid = n + 1
    /\ inserts = 0
    /\ NoCall
    /\ batch = NoBatch

\* pb.Presentation(): a document with no cue and no identifier group
Fresh ==
  /\ pres = EmptyPresentation
  /\ input = pres
  /\ phase = "new"
  /\ song = SongDDS
  /\ add_dash_to_last = TRUE
  /\ check_single_lines = FALSE
  /\ i = 0
  /\ total_slides = 0
  /\ identifiers = <<>>
  /\ default_font_size = NoDefault
  /\ kept_cues = <<>>
  /\ kept_identifiers = <<>>
  /\ last = NoStep
  /\ next_uuid = 1
  /\ inserts = 0
  /\ NoCall
  /\ batch = NoBatch

\* cleanup_slides as process_cleanup and process_single_presentation call it:
\* for a song, with either flag either way; for a document with fewer
\* identifiers than cues; with no song
Init ==
  \/ Loaded(CuePool, {"one"}, {SongDDS}, BOOLEAN, BOOLEAN)
  \/ Loaded(CuePool, {"short"}, {SongDDS}, {TRUE}, {FALSE})
  \/ Loaded(CuePool, {"one"}, {NoSong}, {TRUE}, {FALSE})

\* process_single_presentation's call (lines 421-426) on the documents that
\* insert_cue is then applied to, and a document built from nothing
InitEdit ==
  \/ Loaded(EditPool, {"one", "two"}, {SongDDS}, {TRUE}, {FALSE})
  \/ Fresh

(***************************************************************************)
(* The actions.                                                            *)
(***************************************************************************)
\* one iteration of the loop of line 246, and lines 268-274 after the last
SweepCue ==
  /\ phase = "sweep"
  /\ \E ask \in {SweepOne(pres.cues[i], i - 1, total_slides, song, default_font_size,
                          add_dash_to_last, check_single_lines, 0, "")} :
     \E selected \in (IF ask.candidates = <<>> THEN {0} ELSE ChoiceAnswers(ask.candidates)) :
     \E ans \in (IF ask.asked THEN Answers ELSE {""}) :
     \E o \in {IF ask.candidates = <<>> /\ ~ask.asked THEN ask
               ELSE SweepOne(pres.cues[i], i - 1, total_slides, song, default_font_size,
                             add_dash_to_last, check_single_lines, selected, ans)} :
       /\ default_font_size' = NextDefault(o.keep, o.new_font_size, default_font_size)
       /\ kept_cues' = KeptCues(kept_cues, o.cue, o.keep)
       /\ kept_identifiers' = KeptIdentifiers(kept_identifiers, identifiers, i, o.keep)
       /\ last' = [index |-> i, raises |-> o.raises, keep |-> o.keep,
                   branch |-> o.branch, resolved |-> o.resolved,
                   candidates |-> o.candidates, asked |-> o.asked,
                   cleaned |-> o.cleaned, marked |-> o.marked,
                   before |-> default_font_size, after |-> default_font_size',
                   inserted |-> 0, answer |-> IF o.asked THEN ans ELSE ""]
       /\ i' = i - 1
       /\ phase' = IF o.raises THEN "failed" ELSE IF i = 1 THEN "done" ELSE "sweep"
       /\ pres' = IF ~o.raises /\ i = 1 THEN Rebuilt(kept_cues', kept_identifiers')
                  ELSE [pres EXCEPT !.cues[i] = o.cue]
  /\ UNCHANGED <<input, song, add_dash_to_last, check_single_lines, total_slides,
                 identifiers, next_uuid, inserts, fn, args, out, batch>>

\* insert_cue(pres, cue, index) with the cue make_infoslide_from_content
\* builds; its uuid is new (uuid4) or, for a cue that is inserted again, the
\* uuid of the document's first cue
InsertCue ==
  /\ phase \in {"new", "done"}
  /\ inserts < MaxInserts
  /\ ~InfoslideRaises(get_info_slide_content(song))
  /\ \E index \in 0..Len(pres.cues) :
     \E uuid \in {next_uuid} \cup {pres.cues[k].uuid : k \in {1} \cap DOMAIN pres.cues} :
       /\ pres' = insert_cue(pres, make_infoslide_from_content(
                                     get_info_slide_content(song), uuid), index)
       /\ next_uuid' = IF uuid = next_uuid THEN next_uuid + 1 ELSE next_uuid
       /\ last' = [NoStep EXCEPT !.index = index + 1, !.inserted = uuid]
  /\ inserts' = inserts + 1
  /\ UNCHANGED <<input, phase, song, add_dash_to_last, check_single_lines, i,
                 total_slides, identifiers, default_font_size, kept_cues,
                 kept_identifiers, fn, args, out, batch>>

Next == SweepCue

NextEdit == SweepCue \/ InsertCue

Spec == Init /\ [][Next]_vars

SpecEdit == InitEdit /\ [][NextEdit]_vars

(***************************************************************************)
(* Properties of the document editor.                                      *)
(***************************************************************************)
Identifiers(p) == Flatten(p.cue_groups)

\* the identifiers of the document correspond by position to its cues
Aligned(p) == Identifiers(p) = Uuids(p.cues)

Distinct(seq) == \A a, b \in 1..Len(seq) : seq[a] = seq[b] => a = b

\* every insert_cue call so far inserted a cue with a new uuid
AllInsertedNew == next_uuid = Len(input.cues) + 1 + inserts

\* C1: for an input document whose identifiers, concatenated over its groups,
\* correspond by position to its cues, after cleanup_slides and after any
\* insert_cue calls that follow there is exactly one identifier group, as
\* long as the cue sequence, and its k-th identifier is the k-th cue's.
C1_OneAlignedGroup ==
  (phase = "done" /\ Aligned(input)) =>
     /\ Len(pres.cue_groups) = 1
     /\ Len(pres.cue_groups[1]) = Len(pres.cues)
     /\ \A k \in 1..Len(pres.cues) : pres.cue_groups[1][k] = pres.cues[k].uuid

\* a document of two identifier groups, swept with a cue dropped, and two
\* cues inserted after the sweep
C1_Witness ==
  /\ phase = "done"
  /\ Len(input.cue_groups) = 2
  /\ Aligned(input)
  /\ inserts = 2
  /\ Len(pres.cues) = Len(input.cues) + 1

C4_AlwaysDistinct == phase \in {"new", "done"} => Distinct(Identifiers(pres))

\* C4 as amended: insert_cue generates no identifier, it copies the cue's
\* uuid; the identifiers are pairwise distinct as long as every inserted cue
\* came with a new uuid, as the cues of make_infoslide_from_content do.
C4_DistinctWhenNew ==
  (phase \in {"new", "done"} /\ Aligned(input) /\ AllInsertedNew) =>
     Distinct(Identifiers(pres))

\* two cues with new uuids inserted after a sweep
C4_Witness == phase = "done" /\ inserts = 2 /\ AllInsertedNew /\ Len(pres.cues) >= 3

(***************************************************************************)
(* Properties of the sweep.                                                *)
(***************************************************************************)
Range(seq) == {seq[k] : k \in 1..Len(seq)}

EndsWith(s, suffix) ==
  Len(s) >= Len(suffix) /\ SubSeq(s, Len(s) - Len(suffix) + 1, Len(s)) = suffix

\* the cue's first action is a slide action with a text element
IsSlideCue(cue) ==
  /\ cue.actions[1].type = PRESENTATION_SLIDE
  /\ cue.actions[1].elements # <<>>

\* the lines extracted from the cue's slide clean up to no line in body mode
CleansToNothing(cue) ==
  /\ IsSlideCue(cue)
  /\ ~CleanupRaises(FALSE, song)
  /\ cleanup_slide_text(extract_slide_text(cue.actions[1].elements[1]), FALSE, song) = <<>>

\* the markup of the cue's slide ends in the bare dash line
HasEndMarker(cue) ==
  /\ IsSlideCue(cue)
  /\ EndsWith(cue.actions[1].elements[1], ComposeLine(FormattedLine("", "-")) \o "}")

\* C2: a cue whose first action is a slide and whose extracted lines clean up
\* to zero lines in body mode is absent after the sweep, and so is the
\* identifier at its position; a cue and the identifier at its position are
\* removed together or not at all.
C2_EmptySlideRemoved ==
  phase = "done" =>
    \A k \in 1..Len(input.cues) :
      /\ CleansToNothing(input.cues[k]) =>
           /\ k \notin Range(Uuids(pres.cues))
           /\ k <= Len(identifiers) => identifiers[k] \notin Range(Identifiers(pres))
      /\ k <= Len(identifiers) =>
           (k \in Range(Uuids(pres.cues)) <=> identifiers[k] \in Range(Identifiers(pres)))

\* a sweep that dropped a slide cleaning up to nothing, with its identifier,
\* and kept another cue
C2_Witness ==
  /\ phase = "done"
  /\ Len(pres.cues) >= 1
  /\ \E k \in 1..Len(input.cues) :
       /\ CleansToNothing(input.cues[k])
       /\ k <= Len(identifiers)

\* every cue of the input is one slide action
OnlySlides == \A k \in 1..Len(input.cues) :
  Len(input.cues[k].actions) = 1 /\ IsSlideCue(input.cues[k])

\* C5: with the end marker enabled and a cue surviving the sweep, the last
\* surviving cue ends in the bare dash line, also when cues that followed it
\* were dropped, and no other surviving cue does.
C5_MarkerOnLastSurvivor ==
  (phase = "done" /\ add_dash_to_last /\ OnlySlides /\ Len(pres.cues) >= 1) =>
    \A k \in 1..Len(pres.cues) : HasEndMarker(pres.cues[k]) <=> k = Len(pres.cues)

\* C6: after cleanup_slides no surviving cue has an action of kind Media,
\* Message, Clear or Stage, whatever the order of the actions in the cue.
C6_NoRemovableAction ==
  phase = "done" =>
    \A k \in 1..Len(pres.cues) : \A a \in 1..Len(pres.cues[k].actions) :
      pres.cues[k].actions[a].type \notin Removable

\* the step is the sweep of a cue, did not raise, and a cue is left to process
SweepsOn == last'.index = i /\ phase = "sweep" /\ phase' = "sweep"

\* C8 as claimed: a size resolved by a branch other than the fallback is the
\* remembered default the next slide sees, whether or not the slide is kept;
\* a fallback resolution leaves the remembered default unchanged.
C8_ResolvedIsNextDefault ==
  [][SweepsOn =>
       /\ last'.branch \in {"single", "default", "choice"} =>
            default_font_size' = Default(last'.resolved)
       /\ last'.branch = "fallback" => default_font_size' = default_font_size]_vars

\* C8 as amended: the size resolved for a slide that is kept, by any branch
\* and by the fallback too, is the remembered default the next slide sees; a
\* slide that is dropped leaves the remembered default unchanged.
C8_KeptSlideSetsDefault ==
  [][SweepsOn =>
       IF last'.keep /\ last'.branch # ""
       THEN default_font_size' = Default(last'.resolved)
       ELSE default_font_size' = default_font_size]_vars

\* a slide with one size was dropped, its size is not the remembered default,
\* and a cue is left to process
C8_Witness ==
  /\ phase = "sweep"
  /\ last.branch = "single"
  /\ ~last.keep
  /\ default_font_size = last.before
  /\ default_font_size # Default(last.resolved)

(***************************************************************************)
(* The functions on their own: the arguments are drawn in the initial      *)
(* state, the actions apply the function, the document editor is idle.     *)
(***************************************************************************)
MaxLines == 3

MaxSizes == 3

Idle ==
  /\ pres = EmptyPresentation
  /\ input = pres
  /\ phase = "call"
  /\ song = SongDDS
  /\ add_dash_to_last = FALSE
  /\ check_single_lines = FALSE
  /\ i = 0
  /\ total_slides = 0
  /\ identifiers = <<>>
  /\ default_font_size = NoDefault
  /\ kept_cues = <<>>
  /\ kept_identifiers = <<>>
  /\ last = NoStep
  /\ next_uuid = 1
  /\ inserts = 0
  /\ batch = NoBatch

SeqsUpTo(S, n) == UNION {[1..m -> S] : m \in 0..n}

\* the sizes of the \fsN tokens of a slide's markup, and the remembered defaults
SizePool == {90, 91, 180, 200}

DefaultPool == {NoDefault, Default(90), Default(100), Default(180), Default(200)}

\* markup with one \fsN token per size, in the order given
SizesRtf(sizes) ==
  "{\\rtf1\\ansi " \o Join("\\par", [k \in 1..Len(sizes) |-> SourceLine(sizes[k], "A")]) \o "}"

InitFont ==
  /\ Idle
  /\ fn = "extract_font_size"
  /\ out = <<>>
  /\ \E sizes \in SeqsUpTo(SizePool, MaxSizes) : \E d \in DefaultPool :
       args = [sizes |-> sizes, rtf |-> SizesRtf(sizes), default_font_size |-> d]

\* extract_font_size(text, default_font_size): the size returned, the number
\* of choice() calls, the candidates of the call and the candidate selected
ExtractFontSize ==
  /\ fn = "extract_font_size"
  /\ out = <<>>
  /\ \E candidates \in {Candidates(args.rtf, args.default_font_size)} :
     \E selected \in (IF candidates = <<>> THEN {0} ELSE ChoiceAnswers(candidates)) :
       out' = <<[size |-> extract_font_size(args.rtf, args.default_font_size, selected),
                 calls |-> IF Ambiguous(args.rtf, args.default_font_size) THEN 1 ELSE 0,
                 candidates |-> candidates,
                 selected |-> selected]>>
  /\ UNCHANGED <<editor, fn, args>>

NextFont == ExtractFontSize

SpecFont == InitFont /\ [][NextFont]_vars

\* the texts of the lines of a slide
TextPool == {"x", "3", "", "-", "...", "DDS 012"}

InitCleanup ==
  /\ Idle
  /\ fn = "cleanup_slide_text"
  /\ out = <<>>
  /\ \E texts \in SeqsUpTo(TextPool, MaxLines) :
       args = [k \in 1..Len(texts) |-> FormattedLine("", texts[k])]

\* cleanup_slide_text(lines, intro=False, song=song)
CleanupSlideText ==
  /\ fn = "cleanup_slide_text"
  /\ Len(out) = 0
  /\ out' = <<cleanup_slide_text(args, FALSE, song)>>
  /\ UNCHANGED <<editor, fn, args>>

\* cleanup_slide_text applied to the lines it returned
CleanupAgain ==
  /\ fn = "cleanup_slide_text"
  /\ Len(out) = 1
  /\ out' = Append(out, cleanup_slide_text(out[1], FALSE, song))
  /\ UNCHANGED <<editor, fn, args>>

NextCleanup == CleanupSlideText \/ CleanupAgain

SpecCleanup == InitCleanup /\ [][NextCleanup]_vars

\* the formatting extract_slide_text returns for a line of a source slide
ExtractedFormatting == extract_slide_text(TwoLines)[1].formatting

LinePool == {FormattedLine(f, t) : f \in {"", ExtractedFormatting}, t \in {"A", "B", "C"}}

InitRtf ==
  /\ Idle
  /\ fn = "generate_slide_rtf"
  /\ out = <<>>
  /\ \E lines \in SeqsUpTo(LinePool, MaxLines) :
       /\ Len(lines) >= 1
       /\ args = lines

\* generate_slide_rtf(lines) with the default font_size
GenerateSlideRtf ==
  /\ fn = "generate_slide_rtf"
  /\ out' = <<generate_slide_rtf(args, DefaultRtfFontSize)>>
  /\ fn' = "extract_slide_text"
  /\ UNCHANGED <<editor, args>>

\* extract_slide_text of the markup generated
ExtractSlideText ==
  /\ fn = "extract_slide_text"
  /\ Len(out) = 1
  /\ out' = Append(out, extract_slide_text(out[1]))
  /\ UNCHANGED <<editor, fn, args>>

NextRtf == GenerateSlideRtf \/ ExtractSlideText

SpecRtf == InitRtf /\ [][NextRtf]_vars

\* C7 as claimed: with D the sizes of the markup and d the remembered
\* default, extract_font_size returns 180 for no size, the size for one, d
\* when d is one of several, each time without a choice() call; otherwise it
\* calls choice() once with exactly the halved members of D and returns twice
\* the candidate selected.
C7_CandidatesAreMarkupSizes ==
  Len(out) = 1 =>
    LET D == Range(args.sizes)
        d == args.default_font_size
        r == out[1]
    IN  IF Cardinality(D) = 0 THEN r.size = 180 /\ r.calls = 0
        ELSE IF Cardinality(D) = 1 THEN r.size \in D /\ r.calls = 0
        ELSE IF d.set /\ d.size \in D THEN r.size = d.size /\ r.calls = 0
        ELSE /\ r.calls = 1
             /\ Range(r.candidates) = {x \div 2 : x \in D}
             /\ r.size = 2 * r.selected

\* C7 as amended: in the last case the candidates of the one choice() call
\* are the halved members of D and, when a default is remembered, the halved
\* default as well; the other cases are as claimed.
C7_CandidatesIncludeDefault ==
  Len(out) = 1 =>
    LET D == Range(args.sizes)
        d == args.default_font_size
        r == out[1]
    IN  IF Cardinality(D) = 0 THEN r.size = 180 /\ r.calls = 0
        ELSE IF Cardinality(D) = 1 THEN r.size \in D /\ r.calls = 0
        ELSE IF d.set /\ d.size \in D THEN r.size = d.size /\ r.calls = 0
        ELSE /\ r.calls = 1
             /\ Range(r.candidates) =
                  {x \div 2 : x \in D} \cup (IF d.set THEN {d.size \div 2} ELSE {})
             /\ r.selected \in Range(r.candidates)
             /\ r.size = 2 * r.selected

\* several sizes in the markup, a remembered default that is none of them,
\* and the halved default selected
C7_Witness ==
  /\ Len(out) = 1
  /\ fn = "extract_font_size"
  /\ Cardinality(Range(args.sizes)) > 1
  /\ args.default_font_size.set
  /\ args.default_font_size.size \notin Range(args.sizes)
  /\ out[1].calls = 1
  /\ out[1].size = args.default_font_size.size

\* C9: cleanup_slide_text in body mode, for a song with book and number,
\* applied to its own result returns that result.
C9_Idempotent ==
  (fn = "cleanup_slide_text" /\ Len(out) = 2) => out[2] = out[1]

\* C10: for a non-empty list of lines whose texts hold no markup token,
\* extract_slide_text of generate_slide_rtf(lines) returns one line per input
\* line, in order, with the same text.
C10_ExtractInvertsGenerate ==
  (fn = "extract_slide_text" /\ Len(out) = 2) => Texts(out[2]) = Texts(args)

(***************************************************************************)
(* The commands (main, src/main.py:678-715): process_cleanup,              *)
(* process_songs and process_bible_texts run over the files of the input   *)
(* library, one document at a time.                                        *)
(***************************************************************************)
MaxFiles == 2

\* Song.format_filename
SongFilename(content) ==
  IF HasBookNumber(content)
  THEN content.book \o " " \o Pad3(content.number) \o " - "
         \o Replace(content.title, "?", "") \o ".pro"
  ELSE Replace(content.title, "?", "") \o ".pro"

\* pres_file.stem
Stem(name) == IF EndsWith(name, ".pro") THEN SubSeq(name, 1, Len(name) - 4) ELSE name

\* lines 531 and 535 with BibleText.format_filename
BibleFilename(name) == Strip(Replace(Stem(name), "Bible ", "")) \o ".pro"

\* the name write_presentation gives the file (lines 49-55)
WrittenName(command, file) ==
  IF command = "cleanup" THEN file.name
  ELSE IF command = "song" THEN SongFilename(file.song)
  ELSE BibleFilename(file.name)

\* the song the database holds for the k-th file of a song library
SongOfFile(k) == Song("Title", <<"Text: N.N.">>, "DDS", 11 + k)

\* the k-th file's name: as the program itself names its output, or another
\* name that the command's file pattern matches
FileName(command, canonical, k) ==
  IF command = "song"
  THEN IF canonical THEN SongFilename(SongOfFile(k))
       ELSE "DDS" \o Pad3(SongOfFile(k).number) \o " Title.pro"
  ELSE IF command = "bible"
  THEN IF canonical THEN "Rom " \o Str(k) \o ".pro" ELSE "Bible Rom " \o Str(k) \o ".pro"
  ELSE "File " \o Str(k) \o ".pro"

\* the cues of the documents of a library: a slide; a media action before a
\* slide; an action of a type ActionType does not know; no cue
BatchDocs == << <<CuePool[1]>>, <<CuePool[6]>>, <<CuePool[9]>>, <<>> >>

\* the flags of the three commands (parse_args, lines 643-664)
Commands ==
  {[command |-> "cleanup", add_infoslide |-> FALSE, add_end_dash |-> d,
    check_single_lines |-> c] : d \in BOOLEAN, c \in BOOLEAN}
  \cup {[command |-> "song", add_infoslide |-> a, add_end_dash |-> FALSE,
         check_single_lines |-> FALSE] : a \in BOOLEAN}
  \cup {[command |-> "bible", add_infoslide |-> FALSE, add_end_dash |-> FALSE,
         check_single_lines |-> FALSE]}

InitBatch ==
  /\ pres = EmptyPresentation
  /\ input = pres
  /\ phase = "idle"
  /\ song = NoSong
  /\ add_dash_to_last = FALSE
  /\ check_single_lines = FALSE
  /\ i = 0
  /\ total_slides = 0
  /\ identifiers = <<>>
  /\ default_font_size = NoDefault
  /\ kept_cues = <<>>
  /\ kept_identifiers = <<>>
  /\ last = NoStep
  /\ next_uuid = 1
  /\ inserts = 0
  /\ NoCall
  /\ \E c \in Commands : \E output_dir \in {"in", "out"} : \E canonical \in BOOLEAN :
     \E n \in 1..MaxFiles : \E f \in [1..n -> 1..Len(BatchDocs)] :
       batch = [NoBatch EXCEPT
                  !.command = c.command,
                  !.add_infoslide = c.add_infoslide,
                  !.add_end_dash = c.add_end_dash,
                  !.check_single_lines = c.check_single_lines,
                  !.input_dir = "in",
                  !.output_dir = output_dir,
                  !.files = [k \in 1..n |->
                               [name |-> FileName(c.command, canonical, k),
                                song |-> SongOfFile(k),
                                cues |-> BatchDocs[f[k]]]]]

\* the head of the loop over the files: the document is loaded, skipped when
\* it has no cue (lines 406-408, 527-529, 555-557), and handed to
\* cleanup_slides (lines 421-426, 559-565)
NextDocument ==
  /\ phase = "idle"
  /\ ~batch.aborted
  /\ batch.at < Len(batch.files)
  /\ LET k == batch.at + 1
         file == batch.files[k]
         n == Len(file.cues)
     IN  IF n = 0
         THEN /\ batch' = [batch EXCEPT !.at = k, !.skipped = @ \cup {k}]
              /\ UNCHANGED <<pres, input, phase, song, add_dash_to_last,
                             check_single_lines, i, total_slides, identifiers,
                             default_font_size, kept_cues, kept_identifiers, last,
                             next_uuid, inserts>>
         ELSE /\ batch' = [batch EXCEPT !.at = k]
              /\ pres' = Presentation([c \in 1..n |-> Cue(c, file.cues[c])],
                                      Groups(n, "one", 0))
              /\ input' = pres'
              /\ phase' = "sweep"
              /\ song' = IF batch.command = "song" THEN file.song ELSE NoSong
              /\ add_dash_to_last' = IF batch.command = "cleanup"
                                     THEN batch.add_end_dash ELSE TRUE
              /\ check_single_lines' = batch.check_single_lines
              /\ i' = n
              /\ total_slides' = n
              /\ identifiers' = Flatten(pres'.cue_groups)
              /\ default_font_size' = NoDefault
              /\ kept_cues' = <<>>
              /\ kept_identifiers' = <<>>
              /\ last' = NoStep
              /\ next_uuid' = n + 1
              /\ inserts' = 0
  /\ UNCHANGED <<fn, args, out>>

\* cleanup_slides returned: the info slide of the song command (lines
\* 428-443; the documents of the library hold no info slide yet) and
\* write_presentation (lines 445, 566)
FinishDocument ==
  /\ phase = "done"
  /\ LET k == batch.at
         content_lines == get_info_slide_content(song)
         adds == batch.command = "song" /\ batch.add_infoslide
     IN  IF adds /\ InfoslideRaises(content_lines)
         THEN /\ batch' = [batch EXCEPT !.raised = @ \cup {k}, !.aborted = TRUE]
              /\ phase' = "aborted"
              /\ UNCHANGED <<pres, next_uuid, inserts>>
         ELSE /\ batch' = [batch EXCEPT !.written = @ \cup
                             {<<batch.output_dir, WrittenName(batch.command, batch.files[k])>>}]
              /\ phase' = "idle"
              /\ pres' = IF adds
                         THEN insert_cue(pres, make_infoslide_from_content(content_lines,
                                                                           next_uuid), 0)
                         ELSE pres
              /\ next_uuid' = IF adds THEN next_uuid + 1 ELSE next_uuid
              /\ inserts' = IF adds THEN inserts + 1 ELSE inserts
  /\ UNCHANGED <<input, song, add_dash_to_last, check_single_lines, i, total_slides,
                 identifiers, default_font_size, kept_cues, kept_identifiers, last,
                 fn, args, out>>

\* an exception left cleanup_slides: process_cleanup catches and logs it
\* (lines 569-570); process_songs and process_bible_texts have no handler,
\* the exception leaves main
FailDocument ==
  /\ phase = "failed"
  /\ IF batch.command = "cleanup"
     THEN /\ batch' = [batch EXCEPT !.raised = @ \cup {batch.at},
                                    !.logged = @ \cup {batch.at}]
          /\ phase' = "idle"
     ELSE /\ batch' = [batch EXCEPT !.raised = @ \cup {batch.at}, !.aborted = TRUE]
          /\ phase' = "aborted"
  /\ UNCHANGED <<pres, input, song, add_dash_to_last, check_single_lines, i,
                 total_slides, identifiers, default_font_size, kept_cues,
                 kept_identifiers, last, next_uuid, inserts, fn, args, out>>

NextBatch == NextDocument \/ SweepCue \/ FinishDocument \/ FailDocument

SpecBatch == InitBatch /\ [][NextBatch]_vars

\* the paths of the files of the input library
InputPaths == {<<batch.input_dir, batch.files[k].name>> : k \in 1..Len(batch.files)}

\* C11: in every command an exception raised while one document is processed
\* is caught at the loop over the files and logged, and the files after it
\* are still processed: no failing document ends the run.
C11_FailureDoesNotAbort ==
  /\ batch.raised \subseteq batch.logged
  /\ ~batch.aborted

\* C14: the path write_presentation writes is never the path of a file of
\* the input library, for every invocation of the three commands.
C14_NeverWrittenInPlace == batch.written \cap InputPaths = {}

(***************************************************************************)
(* cleanup_slide_text on its own, in both modes, with and without a song.  *)
(***************************************************************************)
\* a song whose info lines hold a ". " and the copyright sign
SongInfo == Song("Title", <<"3. x", "a" \o Copyright>>, "DDS", 12)

\* the texts of the lines: numbers, blank and junk lines, the ellipsis, the
\* book and number label, and an info line in each encoding of the copyright
\* sign
LineTexts ==
  {"3", "", ".", "...", "x", "DDS 012 x", "dds 12",
   "A" \o normalize(Copyright), "a" \o normalize2(Copyright)}

\* the mode and the song of a call
Modes ==
  {[intro |-> TRUE, song |-> NoSong],
   [intro |-> FALSE, song |-> NoSong],
   [intro |-> FALSE, song |-> SongInfo]}

InitLines ==
  /\ Idle
  /\ fn = "cleanup_slide_text"
  /\ out = <<>>
  /\ \E texts \in SeqsUpTo(LineTexts, MaxLines) : \E mode \in Modes :
       args = [lines |-> [k \in 1..Len(texts) |-> FormattedLine("\\sl" \o Str(k), texts[k])],
               intro |-> mode.intro,
               song |-> mode.song]

\* cleanup_slide_text(lines, intro, song): whether it raises, the lines after
\* the filter (line 89), after the number merge (line 96) and as returned
CleanLines ==
  /\ fn = "cleanup_slide_text"
  /\ Len(out) = 0
  /\ \E filtered \in {IF CleanupRaises(args.intro, args.song) THEN <<>>
                      ELSE SongFilter(ModeSplit(CleanTokens(args.lines), args.intro),
                                      args.intro, args.song)} :
       out' = <<[raises   |-> CleanupRaises(args.intro, args.song),
                 filtered |-> filtered,
                 merged   |-> NumberMerge(filtered),
                 lines    |-> IF CleanupRaises(args.intro, args.song) THEN <<>>
                              ELSE cleanup_slide_text(args.lines, args.intro, args.song)]>>
  /\ UNCHANGED <<editor, fn, args>>

NextLines == CleanLines

SpecLines == InitLines /\ [][NextLines]_vars

\* C12: cleanup_slide_text in body mode with no song completes without error,
\* skips the book, number and info filter and returns the lines the other
\* passes leave.
C12_NoSongCompletes ==
  (Len(out) = 1 /\ ~args.intro /\ ~args.song.present) =>
     /\ ~out[1].raises
     /\ out[1].filtered = ModeSplit(CleanTokens(args.lines), FALSE)

\* the text is one or two digits, with or without a "." after them
IsBareNumber(text) ==
  \E n \in 1..2 :
    /\ Len(text) \in {n, n + 1}
    /\ \A k \in 1..n : Char(text, k) \in {"0", "1", "2", "3", "4", "5", "6", "7", "8", "9"}
    /\ Len(text) = n + 1 => Char(text, n + 1) = "."

\* the digits of a bare number
NumberOf(text) ==
  IF Char(text, Len(text)) = "." THEN SubSeq(text, 1, Len(text) - 1) ELSE text

\* C15: the number merge happens exactly when more than one line remains and
\* the first is a bare one- or two-digit number, with or without "."; the
\* merged line is "<N>. <next text>" with the next line's formatting; in
\* every other case, a first line "" or "." among them, no line is changed.
C15_MergeOnlyBareNumber ==
  (Len(out) = 1 /\ ~out[1].raises) =>
    LET f == out[1].filtered
        m == out[1].merged
    IN  IF Len(f) > 1 /\ IsBareNumber(f[1].text)
        THEN m = <<FormattedLine(f[2].formatting, NumberOf(f[1].text) \o ". " \o f[2].text)>>
                 \o SubSeq(f, 3, Len(f))
        ELSE m = f

\* C16: on a result that is not empty, a first line "..." with another last
\* line gets one blank line appended, a last line "..." with another first
\* line gets one blank line put in front, and nothing is inserted when both
\* ends or neither end is "...".
C16_EllipsisCentered ==
  (Len(out) = 1 /\ ~out[1].raises /\ Len(out[1].merged) > 0) =>
    LET m == out[1].merged
        r == out[1].lines
        first == m[1].text = "..."
        final == m[Len(m)].text = "..."
    IN  IF first /\ ~final THEN r = m \o <<FormattedLine("", "")>>
        ELSE IF final /\ ~first THEN r = <<FormattedLine("", "")>> \o m
        ELSE r = m

\* lines that start with the ellipsis and end with something else
C16_Witness ==
  /\ Len(out) = 1
  /\ fn = "cleanup_slide_text"
  /\ ~out[1].raises
  /\ Len(out[1].merged) = 2
  /\ out[1].merged[1].text = "..."
  /\ out[1].merged[2].text = "x"
  /\ Len(out[1].lines) = 3

\* C17: in body mode for a song with book and number, no line of the result
\* starts, whatever the case of its letters, with the book and the number,
\* padded to three digits or not, and none equals an info line of the song,
\* lower-cased, in either encoding, as it is or with ", " for ". ".
C17_NoSongLineLeft ==
  (Len(out) = 1 /\ ~args.intro /\ args.song.present /\ HasBookNumber(args.song)) =>
    \A k \in 1..Len(out[1].lines) :
      LET l == Lower(out[1].lines[k].text)
          song_ == args.song
      IN  /\ ~StartsWith(l, Lower(song_.book \o " " \o Pad3(song_.number)))
          /\ ~StartsWith(l, Lower(song_.book \o " " \o Str(song_.number)))
          /\ \A n \in 1..Len(song_.info) :
               /\ l # Lower(normalize(song_.info[n]))
               /\ l # Lower(normalize2(song_.info[n]))
               /\ Replace(l, ", ", ". ") # Lower(normalize(song_.info[n]))
               /\ Replace(l, ", ", ". ") # Lower(normalize2(song_.info[n]))

\* C20: the result of cleanup_slide_text in intro mode holds no line with
\* empty text, whatever the lines, "..." at an end among them.
C20_IntroHasNoBlankLine ==
  (Len(out) = 1 /\ args.intro) =>
    \A k \in 1..Len(out[1].lines) : out[1].lines[k].text # ""

\* C13: when the document has another number of identifiers than of cues,
\* cleanup_slides fails for that document and does not complete.
C13_MismatchIsFatal ==
  Len(identifiers) # total_slides => phase # "done"

\* C18: the question is asked exactly when single-line checking is on and
\* the slide has one cleaned line, counted before the end marker; a slide
\* asked about is kept only on an answer that begins with "n" or "N" and is
\* dropped with its identifier on every other answer; with checking off no
\* question is asked and a one-line slide is kept.
C18_SingleLineProtocol ==
  (phase # "new" /\ last.index > 0 /\ ~last.raises) =>
    /\ last.asked <=> (check_single_lines /\ Len(last.cleaned) = 1)
    /\ last.asked =>
         /\ last.keep <=> (last.answer # "" /\ Char(last.answer, 1) \in {"n", "N"})
         /\ last.index \in DOMAIN identifiers =>
              (last.keep <=> identifiers[last.index] \in Range(kept_identifiers))
    /\ (~check_single_lines /\ Len(last.cleaned) = 1) => (~last.asked /\ last.keep)

\* a one-line slide that is the last of the document, kept on the answer "N"
\* and given the end marker after the question
C18_Witness ==
  /\ last.index > 0
  /\ last.asked
  /\ last.answer = "N"
  /\ last.keep
  /\ last.marked
  /\ Len(last.cleaned) = 1

(***************************************************************************)
(* make_infoslide_from_content on the content lines of a song, as          *)
(* process_single_presentation calls it (src/main.py:439-441).             *)
(***************************************************************************)
\* the songs: in a song book or in none (extract_song_from_filename, lines
\* 367-371), with a title that is a word or a number
InfoSongs ==
  {Song(title, info, label.book, label.number) :
     title \in {"Title", "7"},
     info \in SeqsUpTo({"Text: N.N.", "Mel: X", "a" \o Copyright}, MaxLines),
     label \in {[book |-> "DDS", number |-> 12], [book |-> "", number |-> 0]}}

InitInfo ==
  /\ Idle
  /\ fn = "make_infoslide_from_content"
  /\ out = <<>>
  /\ \E content \in InfoSongs :
       args = [song |-> content, content_lines |-> get_info_slide_content(content)]

\* make_infoslide_from_content(content_lines): whether it raises, the lines
\* generate_slide_rtf composes (line 107), the custom attributes (lines
\* 298-307) and the cue returned, if any
MakeInfoslide ==
  /\ fn = "make_infoslide_from_content"
  /\ Len(out) = 0
  /\ \E all_info \in {InfoLines(args.content_lines)} :
       out' = <<[raises   |-> InfoslideRaises(args.content_lines),
                 composed |-> [k \in 1..Len(all_info) |-> ComposeLine(all_info[k])],
                 attributes |-> IF InfoslideRaises(args.content_lines) THEN <<>>
                                ELSE InfoAttributes(all_info, 1, 0),
                 cue      |-> IF InfoslideRaises(args.content_lines) THEN <<>>
                              ELSE <<make_infoslide_from_content(args.content_lines,
                                                                 next_uuid)>>]>>
  /\ UNCHANGED <<editor, fn, args>>

NextInfo == MakeInfoslide

SpecInfo == InitInfo /\ [][NextInfo]_vars

\* the spacing code, and the italic marker, the three-tier structure gives
\* the composed line k
TierOf(k) ==
  IF k = 1 THEN "\\sl288\\slmult1"
  ELSE IF k = 2 THEN "\\sl360\\slmult1"
  ELSE "\\sl288\\slmult1\\i"

\* C19: every info slide make_infoslide_from_content builds has the three
\* tiers: composed line 1 carries the short spacing code, line 2 the tall
\* one and every later line the short one and the italic marker, for a song
\* with book and number and for a song with neither.
C19_ThreeTiers ==
  (Len(out) = 1 /\ fn = "make_infoslide_from_content" /\ ~out[1].raises) =>
    \A k \in 1..Len(out[1].composed) :
      StartsWith(out[1].composed[k], TierOf(k) \o " ")

\* the position in the loaded document of the cue with this uuid
PositionOf(uuid) == CHOOSE p \in DOMAIN input.cues : input.cues[p].uuid = uuid

\* the positions in the loaded document of the cues of the document now
Surviving == [a \in 1..Len(pres.cues) |-> PositionOf(pres.cues[a].uuid)]

HasIdentifier(p) == p <= Len(identifiers)

\* C21: after the sweep the cues are a subsequence of the cues before it:
\* every cue was there, none is there twice and they are in their original
\* order; the identifiers are the original identifiers at the positions of
\* the surviving cues, in that order.
C21_SweepOnlyRemoves ==
  phase = "done" =>
    /\ \A a \in 1..Len(pres.cues) : pres.cues[a].uuid \in Range(Uuids(input.cues))
    /\ \A a, b \in 1..Len(pres.cues) : a < b => Surviving[a] < Surviving[b]
    /\ Identifiers(pres)
         = [a \in 1..Len(SelectSeq(Surviving, HasIdentifier)) |->
              identifiers[SelectSeq(Surviving, HasIdentifier)[a]]]

\* a sweep of two cues that kept both
C21_Witness ==
  /\ phase = "done"
  /\ Len(input.cues) = 2
  /\ Len(pres.cues) = 2
  /\ Identifiers(pres) = identifiers
  /\ Len(identifiers) = 2

\* C22: the size extract_font_size returns is the fallback 180, the
\* remembered default or a size that is in the slide's markup, for odd sizes
\* as for even ones, and the candidates offered to choice() are pairwise
\* distinct.
C22_SizeFromMarkup ==
  (Len(out) = 1 /\ fn = "extract_font_size") =>
    LET D == Range(args.sizes)
        d == args.default_font_size
        r == out[1]
    IN  /\ \/ r.size = 180
           \/ d.set /\ r.size = d.size
           \/ r.size \in D
        /\ Distinct(r.candidates)

\* C23: make_infoslide_from_content succeeds for every list of content
\* lines, one that cleans up to fewer than two lines among them, and gives
\* each cleaned line one font size attribute, 150 for the first, 100 for the
\* second and 70 for every later one, whose ranges follow one another
\* without overlap.
C23_InfoslideAlwaysBuilt ==
  (Len(out) = 1 /\ fn = "make_infoslide_from_content") =>
    LET attrs == out[1].attributes IN
    /\ ~out[1].raises
    /\ Len(attrs) = Len(out[1].composed)
    /\ \A k \in 1..Len(attrs) :
         /\ attrs[k].original_font_size = (IF k = 1 THEN 150 ELSE IF k = 2 THEN 100 ELSE 70)
         /\ attrs[k].start <= attrs[k].end
         /\ k = 1 => attrs[k].start = 0
         /\ k > 1 => attrs[k].start > attrs[k - 1].end

====
